---- MODULE Spec2Model ----
(***************************************************************************)
(* A model of starlette_openapi/__init__.py: the OpenApiObj document       *)
(* object model and its dict() serializer, and the OpenApi generator that  *)
(* walks the application's route table, names the payload models, builds   *)
(* one operation per handler and caches the serialized document.           *)
(*                                                                         *)
(* Python values are tagged records [t, v]: t is the Python type, v the    *)
(* payload.  A string "#/components/schemas/" + name is the value Ref(name).*)
(* An OpenApiObj instance is Obj(cls, attrs): attrs maps the attribute     *)
(* names the instance has to their values.  A Python dict is a function    *)
(* from its keys: the order of the keys is not modelled.                   *)
(*                                                                         *)
(* Spec serves the requests one after another, SpecConc interleaves the    *)
(* steps of concurrent requests, SpecDict runs dict() on single instances. *)
(***************************************************************************)
EXTENDS Integers, Sequences, FiniteSets, TLC

VARIABLES
    routes,                 \* app.routes: sequence of [path, param_convertors, endpoint]
    authLeft,               \* the handlers <<endpoint, method>> that still carry auth_dict
    api_schemas,            \* OpenApi.api_schemas: None or the cached plain document
    models_name,            \* OpenApi.models_name: None or Dict(type -> schema name)
    securitySchemas_index,  \* OpenApi.securitySchemas_index: name -> auth_dict
    token_url,              \* OpenApi.token_url: None or Str(path)
    log,                    \* outcome of every finished get_openapi_data call, in order
    nBuilds,                \* how many times get_models_name has been invoked
    th,                     \* per request thread: its position in get_openapi_data and its locals
    node,                   \* an OpenApiObj instance handed to dict() (serializer runs)
    out                     \* the result of dict(node): None before the call

vars == <<routes, authLeft, api_schemas, models_name, securitySchemas_index,
          token_url, log, nBuilds, th, node, out>>

\* ------------------------------------------------------------------ bounds
MaxRoutes == 2
MaxRequests == 3
MaxThreads == 2

\* ------------------------------------------------------- Python values
None == [t |-> "none", v |-> 0]
Bool(b) == [t |-> "bool", v |-> b]
Str(s) == [t |-> "str", v |-> s]
Ref(name) == [t |-> "ref", v |-> name]
List(s) == [t |-> "list", v |-> s]
Dict(f) == [t |-> "dict", v |-> f]
Obj(cls, attrs) == [t |-> "obj", v |-> [cls |-> cls, attrs |-> attrs]]
EmptyMap == << >>

\* d[k] = val on a Python dict
Put(f, k, val) == [j \in DOMAIN f \cup {k} |-> IF j = k THEN val ELSE f[j]]

\* --------------------------------------------------- fixed_fields per class
operations == <<"get", "put", "post", "delete", "options", "head", "patch", "trace">>
other_fields == <<"ref", "summary", "description", "servers", "parameters">>

fixed_fields(cls) ==
    CASE cls = "OpenApiData" ->
           <<"openapi", "info", "servers", "paths", "components", "security", "tags", "externalDocs">>
      [] cls = "OpenApiInfo" ->
           <<"title", "description", "termsOfService", "contact", "license", "version">>
      [] cls = "OpenApiSecuritySchema" ->
           <<"type", "description", "name", "location_in", "scheme", "bearerFormat", "flows",
             "openIdConnectUrl">>
      [] cls = "OpenApiComponents" ->
           <<"schemas", "responses", "parameters", "examples", "requestBodies", "headers",
             "securitySchemes", "links", "callbacks">>
      [] cls = "OpenApiOperationParameter" ->
           <<"name", "location_in", "description", "required", "deprecated", "allowEmptyValue",
             "type">>
      [] cls = "OpenApiOperationRequest" -> <<"description", "required", "content">>
      [] cls = "OpenApiOperationResponse" -> <<"description", "headers", "content", "links">>
      [] cls = "OpenApiOperation" ->
           <<"tags", "consumes", "produces", "summary", "description", "externalDocs",
             "operationId", "parameters", "requestBody", "responses", "callbacks", "deprecated",
             "security", "servers">>
      [] cls = "OpenApiPath" -> operations \o other_fields
      [] OTHER -> << >>

\* ------------------------------------------------------------ OpenApiObj.dict
\* The key a field is stored under (lines 42-45).
FieldKey(field) ==
    IF field = "ref" THEN "$ref"
    ELSE IF field = "location_in" THEN "in"
    ELSE field

RECURSIVE dict(_), ObjDictLoop(_, _, _), ConvertValue(_)

\* Lines 22-40: a nested node, a list or a dict of nodes is converted; anything
\* else passes through.
ConvertValue(value) ==
    CASE value.t = "obj" -> Dict(dict(value))
      [] value.t = "list" ->
           List([i \in DOMAIN value.v |->
                   IF value.v[i].t = "obj" THEN Dict(dict(value.v[i])) ELSE value.v[i]])
      [] value.t = "dict" ->
           Dict([k \in DOMAIN value.v |->
                   IF value.v[k].t = "obj" THEN Dict(dict(value.v[k])) ELSE value.v[k]])
      [] OTHER -> value

\* MUTANT: a field is dropped when its value is falsy, not only when it is None.
ObjDictLoopSkipFalsy(self, i, result) ==
    LET fields == fixed_fields(self.v.cls)
        RECURSIVE Loop(_, _)
        Loop(j, res) ==
            IF j > Len(fields) THEN res
            ELSE LET field == fields[j]
                     attrs == self.v.attrs
                 IN IF field \notin DOMAIN attrs THEN Loop(j + 1, res)
                    ELSE IF \/ attrs[field].t = "none"
                            \/ attrs[field] \in {Bool(FALSE), Str(""), List(<< >>), Dict(EmptyMap)}
                         THEN Loop(j + 1, res)
                    ELSE Loop(j + 1, Put(res, FieldKey(field), ConvertValue(attrs[field])))
    IN Loop(i, result)

\* Lines 13-48: the loop over self.fixed_fields, from field number i on.
ObjDictLoop(self, i, result) ==
    LET fields == fixed_fields(self.v.cls)
    IN IF i > Len(fields) THEN result
       ELSE LET field == fields[i]
                attrs == self.v.attrs
            IN IF field \notin DOMAIN attrs THEN ObjDictLoop(self, i + 1, result)
               ELSE IF attrs[field].t = "none" THEN ObjDictLoop(self, i + 1, result)
               ELSE ObjDictLoop(self, i + 1,
                                Put(result, FieldKey(field), ConvertValue(attrs[field])))

\* OpenApiPaths.dict (lines 229-233)
PathsDict(self) ==
    LET paths == self.v.attrs["paths"].v
    IN [k \in DOMAIN paths |-> Dict(dict(paths[k]))]

\* OpenApiOperationSeucirty.dict (lines 168-169)
SecurityDict(self) ==
    Put(EmptyMap, self.v.attrs["name"].v, self.v.attrs["scopes"])

\* dict() as the instance's class defines it
dict(self) ==
    CASE self.v.cls = "OpenApiPaths" -> PathsDict(self)
      [] self.v.cls = "OpenApiOperationSeucirty" -> SecurityDict(self)
      [] OTHER -> ObjDictLoop(self, 1, EmptyMap)

\* ------------------------------------------------------------ constructors
\* OpenApiData.__init__ (lines 57-65)
OpenApiData(openapi, info, paths, components) ==
    Obj("OpenApiData",
        [openapi |-> IF openapi.t = "none" \/ openapi = Str("") THEN Str("3.0.3") ELSE openapi,
         info |-> info, servers |-> None, paths |-> paths, components |-> components,
         security |-> List(<< >>), tags |-> List(<< >>), externalDocs |-> None])

\* OpenApiInfo.__init__ (lines 71-77)
OpenApiInfo(title, version, description) ==
    Obj("OpenApiInfo",
        [title |-> title, description |-> description, termsOfService |-> None,
         contact |-> None, license |-> None, version |-> version])

\* OpenApiSecuritySchema.__init__ (lines 83-91): the attribute is "schema", the
\* declared field "scheme".
OpenApiSecuritySchema ==
    Obj("OpenApiSecuritySchema",
        [type |-> None, description |-> None, name |-> None, location_in |-> None,
         schema |-> None, bearerFormat |-> None, flows |-> None, openIdConnectUrl |-> None])

\* OpenApiComponents.__init__ (lines 98-107)
OpenApiComponents ==
    Obj("OpenApiComponents",
        [schemas |-> Dict(EmptyMap), responses |-> Dict(EmptyMap), parameters |-> Dict(EmptyMap),
         examples |-> Dict(EmptyMap), requestBodies |-> Dict(EmptyMap), headers |-> Dict(EmptyMap),
         securitySchemes |-> Dict(EmptyMap), links |-> Dict(EmptyMap), callbacks |-> Dict(EmptyMap)])

\* OpenApiOperationParameter.__init__ (lines 119-126)
OpenApiOperationParameter(name, location_in, required) ==
    Obj("OpenApiOperationParameter",
        [name |-> Str(name), location_in |-> Str(location_in), required |-> Bool(required),
         description |-> None, deprecated |-> None, allowEmptyValue |-> None, type |-> None])

\* OpenApiOperationRequest.__init__ (lines 132-135)
OpenApiOperationRequest ==
    Obj("OpenApiOperationRequest",
        [content |-> Dict(EmptyMap), required |-> Bool(TRUE), description |-> None])

\* OpenApiOperationResponse.__init__ (lines 148-152): headers lands in "header".
OpenApiOperationResponse(description) ==
    Obj("OpenApiOperationResponse",
        [description |-> Str(description), header |-> Dict(EmptyMap),
         content |-> Dict(EmptyMap), links |-> Dict(EmptyMap)])

\* OpenApiOperationSeucirty.__init__ (lines 164-166)
OpenApiOperationSeucirty(name) ==
    Obj("OpenApiOperationSeucirty", [name |-> Str(name), scopes |-> List(<< >>)])

\* OpenApiOperation.__init__ (lines 176-190)
OpenApiOperation ==
    Obj("OpenApiOperation",
        [tags |-> List(<< >>), summary |-> None, description |-> None, externalDocs |-> None,
         operationId |-> None, parameters |-> List(<< >>), requestBody |-> None,
         responses |-> Dict(EmptyMap), callbacks |-> None, deprecated |-> Bool(FALSE),
         security |-> List(<< >>), servers |-> None, consumes |-> None, produces |-> None])

\* OpenApiPath.__init__ (lines 210-215)
OpenApiPath ==
    Obj("OpenApiPath",
        [ref |-> None, summary |-> None, description |-> None, servers |-> None,
         parameters |-> None])

\* OpenApiPaths.__init__ (lines 223-224)
OpenApiPaths == Obj("OpenApiPaths", [paths |-> Dict(EmptyMap)])

\* setattr(obj, name, val)
SetAttr(obj, name, val) == Obj(obj.v.cls, Put(obj.v.attrs, name, val))
Attr(obj, name) == obj.v.attrs[name]

\* add_schema_content (lines 137-142 and 154-159), examples=None
add_schema_content(self, media_type, schema_name) ==
    SetAttr(self, "content",
            Dict(Put(Attr(self, "content").v, media_type,
                     Dict(Put(EmptyMap, "schema",
                              Dict(Put(EmptyMap, "$ref", Ref(schema_name))))))))

\* OpenApiOperation.add_parameters (lines 192-193)
add_parameters(self, parameter) ==
    SetAttr(self, "parameters", List(Append(Attr(self, "parameters").v, parameter)))

\* OpenApiOperation.add_response (lines 195-196): the key is str(status_code)
add_response(self, status_code, response) ==
    SetAttr(self, "responses", Dict(Put(Attr(self, "responses").v, status_code, response)))

\* OpenApiOperation.add_security (lines 198-199)
add_security(self, security) ==
    SetAttr(self, "security", List(Append(Attr(self, "security").v, security)))

\* OpenApiOperation.set_request_body (lines 201-202)
set_request_body(self, request_body) == SetAttr(self, "requestBody", request_body)

\* OpenApiPath.add_operation (lines 217-218)
add_operation(self, method, operation) == SetAttr(self, method, operation)

\* OpenApiPaths.add_path (lines 226-227)
add_path(self, url, path) ==
    SetAttr(self, "paths", Dict(Put(Attr(self, "paths").v, url, path)))

\* OpenApiComponents.set_schemas (lines 109-110)
set_schemas(self, schemas) == SetAttr(self, "schemas", schemas)

\* OpenApiComponents.add_security_schemas (lines 112-113)
add_security_schemas(self, name, security_schema) ==
    SetAttr(self, "securitySchemes",
            Dict(Put(Attr(self, "securitySchemes").v, name, security_schema)))

\* ------------------------------------------- the application under description
\* Declared types the handlers are annotated with.  BaseModels are the
\* pydantic.BaseModel subclasses, BaseForms the starlette_pydantic.BaseForm
\* subclasses (no form is a model); every other type (int, str, dict) is plain.
BaseModels == {"m1.Item", "m2.Item", "m1.Order", "m1.Payload"}
BaseForms == {"UploadForm"}

\* cls.__name__
ClassName(ty) ==
    CASE ty \in {"m1.Item", "m2.Item"} -> "Item"
      [] ty = "m1.Order" -> "Order"
      [] ty = "m1.Payload" -> "Payload"
      [] OTHER -> ty

\* pydantic's long model name: module and qualified name joined by "__"
LongName(ty) ==
    CASE ty = "m1.Item" -> "m1__Item"
      [] ty = "m2.Item" -> "m2__Item"
      [] ty = "m1.Order" -> "m1__Order"
      [] ty = "m1.Payload" -> "m1__Payload"
      [] OTHER -> ty

\* The model types a model's own fields are declared with: an Order holds
\* Items of the second module.
FieldModels(ty) == IF ty = "m1.Order" THEN {"m2.Item"} ELSE {}

\* BaseForm.model_cls
model_cls(ty) == IF ty = "UploadForm" THEN "m1.Payload" ELSE "None"

api_url == "/openapi"
Paths == {api_url, "/items/{id}", "/orders"}

\* route.param_convertors: the parameters named in the route's path
param_convertors(path) == IF path = "/items/{id}" THEN {"id"} ELSE {}

PydanticEndpoints ==
    {"ItemEndpoint", "OrderEndpoint", "UploadEndpoint", "LoginEndpoint", "SearchEndpoint",
     "RawEndpoint"}
\* Endpoints that are no PydanticEndpoint class: a function view of the host and
\* the bound method the generator registers for itself (line 251).
FunctionEndpoints == {"homepage", "get_openapi_data"}

\* The HTTP-verb methods an endpoint defines: hasattr(endpoint, method)
EndpointMethods(endpoint) ==
    CASE endpoint = "ItemEndpoint" -> {"get", "delete"}
      [] endpoint \in {"OrderEndpoint", "UploadEndpoint", "LoginEndpoint"} -> {"post"}
      [] endpoint \in {"SearchEndpoint", "RawEndpoint"} -> {"get"}
      [] OTHER -> {}

Ann(ann_name, ann) == [name |-> ann_name, type |-> ann]

\* handler.__annotations__, in declared order
annotations(endpoint, method) ==
    CASE endpoint = "ItemEndpoint" /\ method = "get" ->
           <<Ann("id", "int"), Ann("q", "str"), Ann("return", "m1.Item")>>
      [] endpoint = "ItemEndpoint" /\ method = "delete" -> <<Ann("id", "int")>>
      [] endpoint = "OrderEndpoint" ->
           <<Ann("body", "m1.Order"), Ann("return", "m1.Order")>>
      [] endpoint = "UploadEndpoint" -> <<Ann("form", "UploadForm")>>
      [] endpoint = "LoginEndpoint" -> <<Ann("username", "str"), Ann("return", "m1.Payload")>>
      [] endpoint = "SearchEndpoint" -> <<Ann("filter", "m2.Item"), Ann("id", "int")>>
      [] endpoint = "RawEndpoint" -> <<Ann("return", "dict")>>
      [] OTHER -> << >>

\* endpoint.tags
tags(endpoint) ==
    CASE endpoint = "ItemEndpoint" -> List(<<Str("item")>>)
      [] endpoint = "LoginEndpoint" -> List(<<Str("auth"), Str("auth")>>)
      [] OTHER -> List(<< >>)

\* The handlers that carry an auth_dict when the application starts.  A
\* handler is the function object of an endpoint class: an endpoint class
\* registered at two routes has one handler per method, not two.
AuthHandlers ==
    {<<"ItemEndpoint", "get">>, <<"ItemEndpoint", "delete">>, <<"UploadEndpoint", "post">>,
     <<"LoginEndpoint", "post">>}

\* handler.auth_dict
auth_dict(endpoint, method) ==
    CASE endpoint = "ItemEndpoint" ->
           [auth_require |-> TRUE, name |-> "oauth2", auth_type |-> "oauth2", token_url |-> FALSE]
      [] endpoint = "UploadEndpoint" ->
           [auth_require |-> TRUE, name |-> "upload", auth_type |-> "oauth2", token_url |-> FALSE]
      [] OTHER ->
           [auth_require |-> FALSE, name |-> "", auth_type |-> "", token_url |-> TRUE]

Route(path, endpoint) == [path |-> path, endpoint |-> endpoint]

\* ------------------------------------------------- the schema delegate
\* The two functions of pydantic.schema the generator imports (line 5) and
\* calls (lines 276 and 345), as pydantic 1.x defines them.
\* pydantic.schema.get_model_name_map: a model keeps its class name unless
\* another model of the set has the same class name; then each takes its long name.
get_model_name_map(models) ==
    [ty \in models |->
        IF \E o \in models \ {ty} : ClassName(o) = ClassName(ty)
        THEN LongName(ty) ELSE ClassName(ty)]

\* pydantic.schema.get_flat_models_from_models: the models and the models of
\* their fields, transitively
RECURSIVE FlatModels(_)
FlatModels(models) ==
    LET more == models \cup UNION {FieldModels(ty) : ty \in models}
    IN IF more = models THEN models ELSE FlatModels(more)

\* pydantic.schema.schema(model_list): the result has a "definitions" key only
\* when there is a definition; its keys are the names of the flat models under
\* the name map of the flat models.
schema(model_list) ==
    LET flat == FlatModels(model_list)
        model_name_map == get_model_name_map(flat)
        names == {model_name_map[ty] : ty \in flat}
        definitions ==
            [n \in names |->
                Dict([title |-> Str(ClassName(CHOOSE ty \in flat : model_name_map[ty] = n)),
                      type |-> Str("object")])]
    IN IF flat = {} THEN EmptyMap ELSE Put(EmptyMap, "definitions", Dict(definitions))

\* ------------------------------------------------------------ OpenApi
\* MUTANT: every route is kept, the document endpoint's own route included.
is_any_endpoint(endpoint) == TRUE

\* OpenApi.is_pydantic_endpoint (lines 253-254)
is_pydantic_endpoint(endpoint) == endpoint \in PydanticEndpoints

\* MUTANT: a form wrapper is registered itself, beside the model it wraps.
AnnotationModelsWithWrapper(ann) ==
    (IF ann \in BaseModels \cup BaseForms THEN {ann} ELSE {})
        \cup (IF ann \in BaseForms THEN {model_cls(ann)} ELSE {})

\* The models one annotation contributes (lines 270-274)
AnnotationModels(ann) ==
    (IF ann \in BaseModels THEN {ann} ELSE {})
        \cup (IF ann \in BaseForms THEN {model_cls(ann)} ELSE {})

\* OpenApi.get_models_name (lines 256-277)
get_models_name(rts) ==
    LET kept == {i \in DOMAIN rts : is_pydantic_endpoint(rts[i].endpoint)}
        HandlerModels(endpoint, method) ==
            UNION {AnnotationModels(annotations(endpoint, method)[j].type) :
                     j \in DOMAIN annotations(endpoint, method)}
        models ==
            UNION {UNION {HandlerModels(rts[i].endpoint, operations[k]) :
                            k \in {k \in DOMAIN operations :
                                     operations[k] \in EndpointMethods(rts[i].endpoint)}} :
                     i \in kept}
    IN get_model_name_map(models)

\* MUTANT: every parameter is an optional query parameter.
ParameterAlwaysQuery(ann_name, route) == OpenApiOperationParameter(ann_name, "query", FALSE)

\* Lines 299-305: a name of the route's path parameters is a required path
\* parameter, any other name an optional query parameter.
ParameterFor(ann_name, route) ==
    IF ann_name \in param_convertors(route.path)
    THEN OpenApiOperationParameter(ann_name, "path", TRUE)
    ELSE OpenApiOperationParameter(ann_name, "query", FALSE)

\* The result of a step that may raise
Raised == [raised |-> TRUE, value |-> None]
Returned(value) == [raised |-> FALSE, value |-> value]

\* OpenApi.get_openapi_operation, the loop over the annotations (lines 283-305),
\* from annotation number i on.  models_name[ann] raises KeyError for a type
\* that has no name; ann.model_cls raises AttributeError on a type that is no form.
RECURSIVE AnnotationLoop(_, _, _, _, _)
AnnotationLoop(method_annotations, i, route, mn, operation) ==
    IF i > Len(method_annotations) THEN Returned(operation)
    ELSE LET ann_name == method_annotations[i].name
             ann == method_annotations[i].type
         IN CASE ann_name = "return" ->
                   IF ann \notin DOMAIN mn THEN Raised
                   ELSE AnnotationLoop(method_annotations, i + 1, route, mn,
                          add_response(operation, "200",
                              add_schema_content(OpenApiOperationResponse("Success Response"),
                                                 "application/json", mn[ann])))
              [] ann_name = "body" ->
                   IF ann \notin DOMAIN mn THEN Raised
                   ELSE AnnotationLoop(method_annotations, i + 1, route, mn,
                          set_request_body(operation,
                              add_schema_content(OpenApiOperationRequest,
                                                 "application/json", mn[ann])))
              [] ann_name = "form" ->
                   IF ann \notin BaseForms \/ model_cls(ann) \notin DOMAIN mn THEN Raised
                   ELSE AnnotationLoop(method_annotations, i + 1, route, mn,
                          set_request_body(operation,
                              add_schema_content(OpenApiOperationRequest,
                                                 "multipart/form-data", mn[model_cls(ann)])))
              [] OTHER ->
                   AnnotationLoop(method_annotations, i + 1, route, mn,
                                  add_parameters(operation, ParameterFor(ann_name, route)))

\* Lines 280-305: the operation before its security is attached
OperationOfAnnotations(endpoint, method, route, mn) ==
    AnnotationLoop(annotations(endpoint, method), 1, route, mn,
                   SetAttr(OpenApiOperation, "tags", tags(route.endpoint)))

\* MUTANT: the scheme of a security requirement is not registered.
RegisterSchemeNever(index, ad) == index

\* Lines 311-312: a scheme is registered under its name once
RegisterScheme(index, ad) ==
    IF ad.name \in DOMAIN index THEN index ELSE Put(index, ad.name, ad)

\* The generator's fields a build writes besides the cache, with the handlers'
\* auth_dict attributes
BuildState(left, index, token) == [authLeft |-> left, index |-> index, token_url |-> token]

\* Lines 309-310: the operation with the descriptor's security requirement
SecurityOf(operation, ad) ==
    IF ad.auth_require THEN add_security(operation, OpenApiOperationSeucirty(ad.name))
    ELSE operation

\* Lines 309-312: the scheme index after the descriptor
IndexAfter(index, ad) == IF ad.auth_require THEN RegisterScheme(index, ad) ELSE index

\* Lines 314-315: the token url after the descriptor
TokenAfter(token, ad, route) ==
    IF ~ad.auth_require /\ ad.token_url THEN Str(route.path) ELSE token

\* Lines 307-319 run without interruption: the security requirement, the
\* scheme index, the token url, and the descriptor deleted from the handler.
AttachSecurity(operation, endpoint, method, route, st) ==
    IF <<endpoint, method>> \notin st.authLeft THEN [operation |-> operation, st |-> st]
    ELSE [operation |-> SecurityOf(operation, auth_dict(endpoint, method)),
          st |-> BuildState(st.authLeft \ {<<endpoint, method>>},
                            IndexAfter(st.index, auth_dict(endpoint, method)),
                            TokenAfter(st.token_url, auth_dict(endpoint, method), route))]

\* OpenApi.get_openapi_operation (lines 279-319)
get_openapi_operation(endpoint, method, route, mn, st) ==
    LET a == OperationOfAnnotations(endpoint, method, route, mn)
    IN IF a.raised THEN [raised |-> TRUE, value |-> None, st |-> st]
       ELSE LET s == AttachSecurity(a.value, endpoint, method, route, st)
            IN [raised |-> FALSE, value |-> s.operation, st |-> s.st]

\* OpenApi.get_openapi_path (lines 321-330), from method number i on
RECURSIVE PathLoop(_, _, _, _, _)
PathLoop(route, i, mn, path, st) ==
    IF i > Len(operations) THEN [raised |-> FALSE, value |-> path, st |-> st]
    ELSE IF operations[i] \notin EndpointMethods(route.endpoint)
    THEN PathLoop(route, i + 1, mn, path, st)
    ELSE LET o == get_openapi_operation(route.endpoint, operations[i], route, mn, st)
         IN IF o.raised THEN o
            ELSE PathLoop(route, i + 1, mn, add_operation(path, operations[i], o.value), o.st)

get_openapi_path(route, mn, st) == PathLoop(route, 1, mn, OpenApiPath, st)

\* OpenApi.get_openapi_paths (lines 332-340), from route number i on
RECURSIVE PathsLoop(_, _, _, _, _)
PathsLoop(rts, i, mn, paths, st) ==
    IF i > Len(rts) THEN [raised |-> FALSE, value |-> paths, st |-> st]
    ELSE IF ~is_pydantic_endpoint(rts[i].endpoint) THEN PathsLoop(rts, i + 1, mn, paths, st)
    ELSE LET p == get_openapi_path(rts[i], mn, st)
         IN IF p.raised THEN p
            ELSE PathsLoop(rts, i + 1, mn, add_path(paths, rts[i].path, p.value), p.st)

get_openapi_paths(rts, mn, st) == PathsLoop(rts, 1, mn, OpenApiPaths, st)

\* Lines 349-356: one security scheme
SecuritySchemaOf(security_dict, token) ==
    SetAttr(SetAttr(OpenApiSecuritySchema, "type", Str(security_dict.auth_type)),
            "flows",
            Dict([password |-> Dict([scopes |-> Dict(EmptyMap), tokenUrl |-> token])]))

\* Lines 348-357: the loop over securitySchemas_index.items() (the order of
\* the items does not show in the resulting map)
RECURSIVE SecuritySchemesLoop(_, _, _, _)
SecuritySchemesLoop(components, names, index, token) ==
    IF names = {} THEN components
    ELSE LET name == CHOOSE n \in names : TRUE
         IN SecuritySchemesLoop(
                add_security_schemas(components, name, SecuritySchemaOf(index[name], token)),
                names \ {name}, index, token)

\* OpenApi.get_openapi_components (lines 342-359): schema(...)['definitions']
\* raises KeyError when the delegate made no definition.
get_openapi_components(mn, index, token) ==
    IF "definitions" \notin DOMAIN schema(DOMAIN mn) THEN Raised
    ELSE Returned(SecuritySchemesLoop(
                      set_schemas(OpenApiComponents, schema(DOMAIN mn)["definitions"]),
                      DOMAIN index, index, token))

\* MUTANT: the cache is never consulted.
NeedsBuildAlways(cache) == TRUE

\* Line 363: not self.api_schemas
NeedsBuild(cache) == cache.t = "none" \/ (cache.t = "dict" /\ DOMAIN cache.v = {})

title == Str("API")
version == Str("1.0")
description == None

\* Lines 365-369: the document composed and serialized
DocumentOf(paths, components) ==
    Dict(dict(OpenApiData(Str("3.0.3"), OpenApiInfo(title, version, description),
                          paths, components)))

\* MUTANT: the cache is assigned once the paths are built, before the components.
get_openapi_data_early_store(rts, cache, old_mn, st) ==
    IF ~NeedsBuild(cache)
    THEN [api_schemas |-> cache, models_name |-> old_mn, st |-> st,
          outcome |-> [kind |-> "cached", body |-> cache]]
    ELSE LET mn == get_models_name(rts)
             p == get_openapi_paths(rts, mn, st)
             c == get_openapi_components(mn, p.st.index, p.st.token_url)
         IN IF p.raised
            THEN [api_schemas |-> cache, models_name |-> Dict(mn), st |-> p.st,
                  outcome |-> [kind |-> "raised", body |-> None]]
            ELSE IF c.raised
            THEN [api_schemas |-> Dict("paths" :> Dict(dict(p.value))),
                  models_name |-> Dict(mn), st |-> p.st,
                  outcome |-> [kind |-> "raised", body |-> None]]
            ELSE [api_schemas |-> DocumentOf(p.value, c.value), models_name |-> Dict(mn),
                  st |-> p.st,
                  outcome |-> [kind |-> "built", body |-> DocumentOf(p.value, c.value)]]

\* OpenApi.get_openapi_data (lines 361-371) run without interruption: the
\* fields after the call and its outcome.  A raise leaves the cache as it was.
get_openapi_data(rts, cache, old_mn, st) ==
    IF ~NeedsBuild(cache)
    THEN [api_schemas |-> cache, models_name |-> old_mn, st |-> st,
          outcome |-> [kind |-> "cached", body |-> cache]]
    ELSE LET mn == get_models_name(rts)
             p == get_openapi_paths(rts, mn, st)
             c == get_openapi_components(mn, p.st.index, p.st.token_url)
         IN IF p.raised \/ c.raised
            THEN [api_schemas |-> cache, models_name |-> Dict(mn), st |-> p.st,
                  outcome |-> [kind |-> "raised", body |-> None]]
            ELSE LET doc == DocumentOf(p.value, c.value)
                 IN [api_schemas |-> doc, models_name |-> Dict(mn), st |-> p.st,
                     outcome |-> [kind |-> "built", body |-> doc]]

\* ------------------------------------------------------------ the program
NoThread == [pc |-> "idle", k |-> 0, ops |-> << >>, keys |-> {}, doc |-> None]

\* After OpenApi.__init__ (lines 238-251) on a fresh application: the only
\* route is the document endpoint's, nothing is cached.
Init ==
    /\ routes = <<Route(api_url, "get_openapi_data")>>
    /\ authLeft = AuthHandlers
    /\ api_schemas = None
    /\ models_name = None
    /\ securitySchemas_index = EmptyMap
    /\ token_url = None
    /\ log = << >>
    /\ nBuilds = 0
    /\ th = [t \in 1..MaxThreads |-> NoThread]
    /\ node = None
    /\ out = None

\* The host application registers a route (app.add_route appends to app.routes).
AddRoute(path, endpoint) ==
    /\ Len(routes) < MaxRoutes + 1
    /\ routes' = Append(routes, Route(path, endpoint))
    /\ UNCHANGED <<authLeft, api_schemas, models_name, securitySchemas_index, token_url,
                   log, nBuilds, th, node, out>>

\* One GET of the document endpoint, served without interruption.
Request ==
    /\ Len(log) < MaxRequests
    /\ \E r \in {get_openapi_data(routes, api_schemas, models_name,
                                    BuildState(authLeft, securitySchemas_index, token_url))} :
          /\ api_schemas' = r.api_schemas
          /\ models_name' = r.models_name
          /\ authLeft' = r.st.authLeft
          /\ securitySchemas_index' = r.st.index
          /\ token_url' = r.st.token_url
          /\ nBuilds' = IF r.outcome.kind = "cached" THEN nBuilds ELSE nBuilds + 1
          /\ log' = Append(log, [kind |-> r.outcome.kind, body |-> r.outcome.body,
                                 rts |-> routes])
    /\ UNCHANGED <<routes, th, node, out>>

Next ==
    \/ \E path \in Paths, endpoint \in PydanticEndpoints \cup (FunctionEndpoints \ {"get_openapi_data"}) :
          AddRoute(path, endpoint)
    \/ Request

Spec == Init /\ [][Next]_vars

\* ------------------------------------------------ reading a served document
Last(seq) == seq[Len(seq)]
Methods == {operations[k] : k \in DOMAIN operations}

\* The documents that requests were answered with
ServedDocs == {log[i].body : i \in {i \in DOMAIN log : log[i].kind # "raised"}}
BuiltEntries == {i \in DOMAIN log : log[i].kind = "built"}

DocPaths(doc) == doc.v["paths"].v
DocOperations(doc) ==
    {<<path, method>> \in (DOMAIN DocPaths(doc)) \X Methods :
        method \in DOMAIN DocPaths(doc)[path].v}
DocOperation(doc, path, method) == DocPaths(doc)[path].v[method].v
SchemaKeys(doc) == DOMAIN doc.v["components"].v["schemas"].v
SecuritySchemeKeys(doc) == DOMAIN doc.v["components"].v["securitySchemes"].v

\* The schema names a content map (media type -> {schema: {$ref: ...}}) refers to
ContentRefs(content) == {content.v[media].v["schema"].v["$ref"].v : media \in DOMAIN content.v}

\* Every name referred to by the request body and the responses of an operation
OperationRefs(op) ==
    (IF "requestBody" \in DOMAIN op THEN ContentRefs(op["requestBody"].v["content"]) ELSE {})
        \cup UNION {ContentRefs(op["responses"].v[code].v["content"]) :
                      code \in DOMAIN op["responses"].v}

\* The scheme names of an operation's security list
OperationSecurity(op) ==
    UNION {DOMAIN op["security"].v[i].v : i \in DOMAIN op["security"].v}

\* The route whose path item a document built from rts holds at rts[r].path:
\* the last kept route of that path.
Documented(rts, r) ==
    /\ rts[r].endpoint \in PydanticEndpoints
    /\ ~\E r2 \in DOMAIN rts :
          r2 > r /\ rts[r2].endpoint \in PydanticEndpoints /\ rts[r2].path = rts[r].path

\* The annotations of the handlers of the kept routes
KeptAnnotations(rts) ==
    UNION {UNION {{annotations(rts[r].endpoint, method)[j] :
                     j \in DOMAIN annotations(rts[r].endpoint, method)} :
                    method \in EndpointMethods(rts[r].endpoint)} :
             r \in {r \in DOMAIN rts : rts[r].endpoint \in PydanticEndpoints}}

\* The route table of the latest build attempt
LastAttempt == Last(SelectSeq(log, LAMBDA e : e.kind # "cached")).rts

SchemaContent(media_type, name) ==
    media_type :> Dict("schema" :> Dict("$ref" :> Ref(name)))

\* ------------------------------------------------------------ C1
\* C1: once a request has built the document successfully, every later request
\* is answered with the cached value, the cache does not change and the build
\* (get_models_name, the schema delegate) is not run again.
IdempotentCaching ==
    [][(\E i \in DOMAIN log : log[i].kind = "built") =>
          /\ api_schemas' = api_schemas
          /\ nBuilds' = nBuilds
          /\ (log' # log =>
                /\ Last(log').kind = "cached"
                /\ Last(log').body = log[Last(SelectSeq([i \in DOMAIN log |-> i],
                                        LAMBDA i : log[i].kind = "built"))].body)]_vars

IdempotentCachingWitness ==
    /\ Len(log) >= 3
    /\ log[Len(log) - 2].kind = "built"
    /\ log[Len(log) - 1].kind = "cached"
    /\ Last(log).kind = "cached"
    /\ Last(log).rts # log[Len(log) - 2].rts
    /\ nBuilds = 1

\* ------------------------------------------------------------ C2
\* C2: in every served document every $ref of a request body or response names
\* a key of components.schemas.
ReferentialIntegrity ==
    \A doc \in ServedDocs : \A pm \in DocOperations(doc) :
        OperationRefs(DocOperation(doc, pm[1], pm[2])) \subseteq SchemaKeys(doc)

\* ------------------------------------------------------------ C4
\* C4: in every served document every scheme name of an operation's security
\* list is a key of components.securitySchemes; and after any build attempt
\* the scheme of every consumed auth_require descriptor is in the index that
\* the components are built from.
SecuritySchemeIntegrity ==
    /\ \A doc \in ServedDocs : \A pm \in DocOperations(doc) :
          OperationSecurity(DocOperation(doc, pm[1], pm[2])) \subseteq SecuritySchemeKeys(doc)
    /\ \A h \in AuthHandlers \ authLeft :
          auth_dict(h[1], h[2]).auth_require =>
             auth_dict(h[1], h[2]).name \in DOMAIN securitySchemas_index

SecuritySchemeIntegrityWitness ==
    \E doc \in ServedDocs :
        /\ Cardinality(SecuritySchemeKeys(doc)) = 2
        /\ \E pm \in DocOperations(doc) :
              OperationSecurity(DocOperation(doc, pm[1], pm[2])) = {"upload"}

\* The types get_models_name names, by the annotations' types alone
RegisteredByType(rts) ==
    ({a.type : a \in KeptAnnotations(rts)} \cap BaseModels)
        \cup {model_cls(a.type) : a \in {a \in KeptAnnotations(rts) : a.type \in BaseForms}}

\* ------------------------------------------------------------ C5
\* The parameters the annotations call for: one per name other than return,
\* body and form, in declared order, "path" and required when the name is a
\* path parameter of the route, "query" and optional otherwise.
ExpectedParameters(anns, path) ==
    LET ps == SelectSeq(anns, LAMBDA a : a.name \notin {"return", "body", "form"})
    IN [i \in DOMAIN ps |->
          Dict("name" :> Str(ps[i].name)
               @@ "in" :> Str(IF ps[i].name \in param_convertors(path) THEN "path" ELSE "query")
               @@ "required" :> Bool(ps[i].name \in param_convertors(path)))]

OperationAsAnnotated(doc, rts, r, method) ==
    LET op == DocOperation(doc, rts[r].path, method)
        anns == annotations(rts[r].endpoint, method)
        names == get_model_name_map(RegisteredByType(rts))
    IN /\ op["parameters"] = List(ExpectedParameters(anns, rts[r].path))
       /\ \A j \in DOMAIN anns :
             anns[j].name = "return" =>
                /\ DOMAIN op["responses"].v = {"200"}
                /\ op["responses"].v["200"].v["description"] = Str("Success Response")
                /\ op["responses"].v["200"].v["content"] =
                      Dict(SchemaContent("application/json", names[anns[j].type]))

\* C5: every operation of a built document has exactly the parameters its
\* handler's annotations call for, and a return annotation gives the response
\* "200", "Success Response", application/json, the return type's name.
ParameterClassification ==
    \A i \in BuiltEntries : \A r \in DOMAIN log[i].rts :
        Documented(log[i].rts, r) =>
            \A method \in EndpointMethods(log[i].rts[r].endpoint) :
                OperationAsAnnotated(log[i].body, log[i].rts, r, method)

ParameterClassificationWitness ==
    \E i \in BuiltEntries :
        /\ \E r \in DOMAIN log[i].rts : log[i].rts[r] = Route("/items/{id}", "ItemEndpoint")
        /\ \E r \in DOMAIN log[i].rts : log[i].rts[r] = Route("/orders", "SearchEndpoint")
        /\ Len(DocOperation(log[i].body, "/items/{id}", "get")["parameters"].v) = 2
        /\ "200" \in DOMAIN DocOperation(log[i].body, "/items/{id}", "get")["responses"].v

\* ------------------------------------------------------------ C6
\* The types referenced via return, body or the inner type of form
RegisteredByName(rts) ==
    {a.type : a \in {a \in KeptAnnotations(rts) : a.name \in {"return", "body"}}}
        \cup {model_cls(a.type) : a \in {a \in KeptAnnotations(rts) : a.name = "form"}}

\* A form handler's request body is multipart/form-data and refers to the
\* inner model's name; no form wrapper is registered or a schema key.
FormUnwrapped ==
    /\ \A i \in BuiltEntries : \A r \in DOMAIN log[i].rts :
          Documented(log[i].rts, r) =>
            \A method \in EndpointMethods(log[i].rts[r].endpoint) :
              \A a \in {a \in KeptAnnotations(<<log[i].rts[r]>>) : a.name = "form"} :
                 /\ DocOperation(log[i].body, log[i].rts[r].path, method)["requestBody"]
                       .v["content"] =
                      Dict(SchemaContent("multipart/form-data",
                             get_model_name_map(RegisteredByType(log[i].rts))[model_cls(a.type)]))
                 /\ ClassName(a.type) \notin SchemaKeys(log[i].body)
    /\ models_name.t = "dict" => DOMAIN models_name.v \cap BaseForms = {}

\* C6 as claimed: form unwrapping, and only the types referenced via return,
\* body or the inner type of form are registered.
FormUnwrappingOnlyPayloadTypes ==
    /\ FormUnwrapped
    /\ models_name.t = "dict" => DOMAIN models_name.v \subseteq RegisteredByName(LastAttempt)

\* C6 amended: form unwrapping, and the registered types are the BaseModel
\* types of the annotations of any name with the inner types of the form
\* wrappers.
FormUnwrapping ==
    /\ FormUnwrapped
    /\ models_name.t = "dict" => DOMAIN models_name.v = RegisteredByType(LastAttempt)

FormUnwrappingWitness ==
    \E i \in BuiltEntries :
        /\ \E r \in DOMAIN log[i].rts : log[i].rts[r].endpoint = "UploadEndpoint"
        /\ "Payload" \in SchemaKeys(log[i].body)
        /\ i = Len(log)
        /\ DOMAIN models_name.v = {"m1.Payload"}

BuildFailureRetry ==
    [][log' # log =>
         /\ Last(log').kind = "raised" => (api_schemas' = None /\ Last(log').body = None)
         /\ (\A i \in DOMAIN log' : log'[i].kind # "built") => api_schemas' = None
         /\ (\A i \in DOMAIN log : log[i].kind # "built") =>
               (Last(log').kind \in {"built", "raised"} /\ nBuilds' = nBuilds + 1)
         /\ (\E i \in DOMAIN log : log[i].kind = "built") =>
               (Last(log').kind = "cached" /\ nBuilds' = nBuilds)]_vars

BuildFailureRetryWitness ==
    /\ Len(log) = 3
    /\ log[1].kind = "raised"
    /\ log[2].kind = "built"
    /\ log[3].kind = "cached"
    /\ nBuilds = 2
    /\ \E r \in DOMAIN log[1].rts : log[1].rts[r].endpoint = "homepage"

\* ------------------------------------------------------------ serializer runs
\* Values an attribute of a node is given: None, falsy and truthy scalars,
\* empty and non-empty containers, a node, a list and a dict holding a node.
FieldValues ==
    {None, Bool(FALSE), Bool(TRUE), Str(""), Str("x"), List(<< >>), Dict(EmptyMap),
     OpenApiOperationParameter("id", "path", TRUE),
     List(<<OpenApiOperationParameter("q", "query", FALSE), Str("s")>>),
     Dict("k" :> OpenApiOperationRequest)}

\* The instances dict() is run on: an instance as its constructor leaves it,
\* with three of its declared fields deleted or set to any of FieldValues.
VariedFields(cls) ==
    CASE cls = "OpenApiOperation" -> {"requestBody", "parameters", "deprecated"}
      [] cls = "OpenApiOperationParameter" -> {"location_in", "description", "required"}
      [] cls = "OpenApiPath" -> {"ref", "get", "summary"}
      [] OTHER -> {"type", "scheme", "flows"}

Constructed(cls) ==
    CASE cls = "OpenApiOperation" -> OpenApiOperation
      [] cls = "OpenApiOperationParameter" -> OpenApiOperationParameter("id", "path", TRUE)
      [] cls = "OpenApiPath" -> OpenApiPath
      [] OTHER -> OpenApiSecuritySchema

DictClasses ==
    {"OpenApiOperation", "OpenApiOperationParameter", "OpenApiPath", "OpenApiSecuritySchema"}

DictNodes ==
    UNION {{Obj(cls, [k \in ((DOMAIN Constructed(cls).v.attrs) \ VariedFields(cls)) \cup set |->
                        IF k \in set THEN g[k] ELSE Constructed(cls).v.attrs[k]]) :
              set \in SUBSET VariedFields(cls), g \in [VariedFields(cls) -> FieldValues]} :
             cls \in DictClasses}

InitDict ==
    /\ routes = <<Route(api_url, "get_openapi_data")>>
    /\ authLeft = AuthHandlers
    /\ api_schemas = None
    /\ models_name = None
    /\ securitySchemas_index = EmptyMap
    /\ token_url = None
    /\ log = << >>
    /\ nBuilds = 0
    /\ th = [t \in 1..MaxThreads |-> NoThread]
    /\ node \in DictNodes
    /\ out = None

\* node.dict()
Serialize ==
    /\ out = None
    /\ out' = Dict(dict(node))
    /\ UNCHANGED <<routes, authLeft, api_schemas, models_name, securitySchemas_index,
                   token_url, log, nBuilds, th, node>>

NextDict == Serialize

SpecDict == InitDict /\ [][NextDict]_vars

\* ------------------------------------------------------------ C8
\* C8: dict() emits the key of a declared field exactly when the instance has
\* the attribute and it is not None; no emitted value is None; falsy values
\* (False, "", [], {}) are emitted like any other.
FieldOmission ==
    out # None =>
        /\ \A i \in DOMAIN fixed_fields(node.v.cls) :
              LET field == fixed_fields(node.v.cls)[i]
              IN FieldKey(field) \in DOMAIN out.v
                    <=> (field \in DOMAIN node.v.attrs /\ node.v.attrs[field] # None)
        /\ \A key \in DOMAIN out.v : out.v[key] # None
        /\ DOMAIN out.v \subseteq
              {FieldKey(fixed_fields(node.v.cls)[i]) : i \in DOMAIN fixed_fields(node.v.cls)}

\* An Operation with no request body, deprecated False and no parameters:
\* no requestBody key, and the two falsy fields emitted.
FieldOmissionWitness ==
    /\ out # None
    /\ node.v.cls = "OpenApiOperation"
    /\ "requestBody" \in DOMAIN node.v.attrs
    /\ node.v.attrs["requestBody"] = None
    /\ "requestBody" \notin DOMAIN out.v
    /\ "deprecated" \in DOMAIN node.v.attrs
    /\ node.v.attrs["deprecated"] = Bool(FALSE)
    /\ "deprecated" \in DOMAIN out.v
    /\ out.v["deprecated"] = Bool(FALSE)
    /\ "parameters" \notin DOMAIN node.v.attrs
    /\ "parameters" \notin DOMAIN out.v

\* ------------------------------------------------ interleaved requests
\* get_openapi_data is a plain function, so the host runs each request in a
\* worker thread; two requests interleave between the reads and writes of the
\* generator's fields and of the handlers' auth_dict attributes.  A thread's
\* locals: pc its position, k the handler it is at, ops the operations built
\* so far, keys the size-check of its iteration over securitySchemas_index,
\* doc the document it composed.

\* The handlers in the order get_openapi_paths reaches them (lines 323-327, 334-338)
RECURSIVE WorkFrom(_, _)
WorkFrom(rts, r) ==
    IF r > Len(rts) THEN << >>
    ELSE LET ms == SelectSeq(operations, LAMBDA m : m \in EndpointMethods(rts[r].endpoint))
         IN (IF is_pydantic_endpoint(rts[r].endpoint)
             THEN [i \in DOMAIN ms |-> [r |-> r, method |-> ms[i]]]
             ELSE << >>) \o WorkFrom(rts, r + 1)

Work(rts) == WorkFrom(rts, 1)

\* The paths object the loops of lines 321-340 build from the operations ops,
\* one per handler of Work(rts)
RECURSIVE AssembleFrom(_, _, _, _, _)
AssembleFrom(rts, ops, k, path, paths) ==
    IF k > Len(Work(rts)) THEN paths
    ELSE LET w == Work(rts)[k]
             withOp == add_operation(path, w.method, ops[k])
         IN IF k = Len(Work(rts)) \/ Work(rts)[k + 1].r # w.r
            THEN AssembleFrom(rts, ops, k + 1, OpenApiPath,
                              add_path(paths, rts[w.r].path, withOp))
            ELSE AssembleFrom(rts, ops, k + 1, withOp, paths)

AssemblePaths(rts, ops) == AssembleFrom(rts, ops, 1, OpenApiPath, OpenApiPaths)

\* The route tables the interleaved requests are served from
UserRoutes ==
    {Route(path, endpoint) :
        path \in Paths,
        endpoint \in PydanticEndpoints \cup (FunctionEndpoints \ {"get_openapi_data"})}
RouteTables ==
    {<<Route(api_url, "get_openapi_data")>> \o tail :
        tail \in UNION {[1..n -> UserRoutes] : n \in 0..MaxRoutes}}

InitConc ==
    /\ routes \in RouteTables
    /\ authLeft = AuthHandlers
    /\ api_schemas = None
    /\ models_name = None
    /\ securitySchemas_index = EmptyMap
    /\ token_url = None
    /\ log = << >>
    /\ nBuilds = 0
    /\ th = [t \in 1..MaxThreads |-> NoThread]
    /\ node = None
    /\ out = None

Handler(t) == <<routes[Work(routes)[th[t].k].r].endpoint, Work(routes)[th[t].k].method>>
HandlerRoute(t) == routes[Work(routes)[th[t].k].r]

\* The thread ends with an exception: the request fails, nothing is stored.
RaiseIn(t) ==
    /\ th' = [th EXCEPT ![t].pc = "done"]
    /\ log' = Append(log, [kind |-> "raised", body |-> None, rts |-> routes])

\* Lines 363-364: the cache check, and models_name assigned
Start(t) ==
    /\ th[t].pc = "idle"
    /\ IF NeedsBuild(api_schemas)
       THEN /\ models_name' = Dict(get_models_name(routes))
            /\ nBuilds' = nBuilds + 1
            /\ th' = [th EXCEPT ![t].pc = "operation", ![t].k = 1]
       ELSE /\ th' = [th EXCEPT ![t].pc = "respond"]
            /\ UNCHANGED <<models_name, nBuilds>>
    /\ UNCHANGED <<routes, authLeft, api_schemas, securitySchemas_index, token_url, log,
                   node, out>>

\* Lines 280-307 for the next handler: the annotations, then hasattr(handler, 'auth_dict')
OperationStep(t) ==
    /\ th[t].pc = "operation"
    /\ th[t].k <= Len(Work(routes))
    /\ \E a \in {OperationOfAnnotations(Handler(t)[1], Handler(t)[2], HandlerRoute(t),
                                        models_name.v)} :
          IF a.raised THEN RaiseIn(t)
          ELSE /\ th' = [th EXCEPT ![t].ops = Append(@, a.value),
                                   ![t].pc = IF Handler(t) \in authLeft
                                             THEN "auth_read" ELSE "operation",
                                   ![t].k = IF Handler(t) \in authLeft THEN @ ELSE @ + 1]
               /\ UNCHANGED log
    /\ UNCHANGED <<routes, authLeft, api_schemas, models_name, securitySchemas_index,
                   token_url, nBuilds, node, out>>

\* Lines 308-315: handler.auth_dict is read (AttributeError when another
\* thread has deleted it), the requirement attached, the index and token url written
AuthRead(t) ==
    /\ th[t].pc = "auth_read"
    /\ IF Handler(t) \notin authLeft
       THEN RaiseIn(t) /\ UNCHANGED <<securitySchemas_index, token_url>>
       ELSE /\ th' = [th EXCEPT ![t].ops[th[t].k] =
                                    SecurityOf(@, auth_dict(Handler(t)[1], Handler(t)[2])),
                                ![t].pc = "auth_del"]
            /\ securitySchemas_index' =
                  IndexAfter(securitySchemas_index, auth_dict(Handler(t)[1], Handler(t)[2]))
            /\ token_url' =
                  TokenAfter(token_url, auth_dict(Handler(t)[1], Handler(t)[2]), HandlerRoute(t))
            /\ UNCHANGED log
    /\ UNCHANGED <<routes, authLeft, api_schemas, models_name, nBuilds, node, out>>

\* Line 317: del handler.auth_dict (AttributeError when it is gone already)
AuthDel(t) ==
    /\ th[t].pc = "auth_del"
    /\ IF Handler(t) \notin authLeft
       THEN RaiseIn(t) /\ UNCHANGED authLeft
       ELSE /\ authLeft' = authLeft \ {Handler(t)}
            /\ th' = [th EXCEPT ![t].pc = "operation", ![t].k = @ + 1]
            /\ UNCHANGED log
    /\ UNCHANGED <<routes, api_schemas, models_name, securitySchemas_index, token_url,
                   nBuilds, node, out>>

\* Lines 343-348: the schemas (KeyError when the delegate made no definition),
\* and the iteration over securitySchemas_index begun
ComponentsStep(t) ==
    /\ th[t].pc = "operation"
    /\ th[t].k > Len(Work(routes))
    /\ IF "definitions" \notin DOMAIN schema(DOMAIN models_name.v)
       THEN RaiseIn(t)
       ELSE /\ th' = [th EXCEPT ![t].pc = "iterate", ![t].keys = DOMAIN securitySchemas_index]
            /\ UNCHANGED log
    /\ UNCHANGED <<routes, authLeft, api_schemas, models_name, securitySchemas_index,
                   token_url, nBuilds, node, out>>

\* Lines 348-368: the iteration ended (RuntimeError when the index has grown
\* since it began), the components and the document composed
IterateStep(t) ==
    /\ th[t].pc = "iterate"
    /\ IF DOMAIN securitySchemas_index # th[t].keys
       THEN RaiseIn(t)
       ELSE /\ \E c \in {get_openapi_components(models_name.v, securitySchemas_index,
                                                token_url)} :
                 th' = [th EXCEPT ![t].pc = "store",
                                  ![t].doc = DocumentOf(AssemblePaths(routes, th[t].ops),
                                                        c.value)]
            /\ UNCHANGED log
    /\ UNCHANGED <<routes, authLeft, api_schemas, models_name, securitySchemas_index,
                   token_url, nBuilds, node, out>>

\* Line 369: self.api_schemas assigned
StoreStep(t) ==
    /\ th[t].pc = "store"
    /\ api_schemas' = th[t].doc
    /\ th' = [th EXCEPT ![t].pc = "respond"]
    /\ UNCHANGED <<routes, authLeft, models_name, securitySchemas_index, token_url, log,
                   nBuilds, node, out>>

\* Line 371: the response made of self.api_schemas as it is now
RespondStep(t) ==
    /\ th[t].pc = "respond"
    /\ log' = Append(log, [kind |-> IF th[t].doc = None THEN "cached" ELSE "built",
                           body |-> api_schemas, rts |-> routes])
    /\ th' = [th EXCEPT ![t].pc = "done"]
    /\ UNCHANGED <<routes, authLeft, api_schemas, models_name, securitySchemas_index,
                   token_url, nBuilds, node, out>>

NextConc ==
    \E t \in 1..MaxThreads :
        \/ Start(t)
        \/ OperationStep(t)
        \/ AuthRead(t)
        \/ AuthDel(t)
        \/ ComponentsStep(t)
        \/ IterateStep(t)
        \/ StoreStep(t)
        \/ RespondStep(t)

SpecConc == InitConc /\ [][NextConc]_vars

\* What one uninterrupted first request answers from the route table
SequentialBuild ==
    get_openapi_data(routes, None, None, BuildState(AuthHandlers, EmptyMap, None))

\* ------------------------------------------------------------ C3
\* C3: the builds of an unchanged route table yield the same document: any two
\* documents that requests have composed are equal.
Determinism ==
    \A t1, t2 \in 1..MaxThreads :
        (th[t1].doc # None /\ th[t2].doc # None) => th[t1].doc = th[t2].doc

\* ------------------------------------------------------------ C9
\* C9: when a single uninterrupted build of the route table succeeds, no
\* interleaved request fails, every document composed, cached or served is the
\* document of that single build.
ConcurrentFirstRequests ==
    SequentialBuild.outcome.kind = "built" =>
        /\ \A i \in DOMAIN log :
              log[i].kind # "raised" /\ log[i].body = SequentialBuild.api_schemas
        /\ api_schemas \in {None, SequentialBuild.api_schemas}
        /\ \A t \in 1..MaxThreads : th[t].doc \in {None, SequentialBuild.api_schemas}

====
